---- MODULE Spec2Model ----
(***************************************************************************)
(* Dream Aware (weather-advisor-app): the advice mapping of                *)
(* weather_utils.py, the Streamlit application of app.py (sessions, users  *)
(* and preferences tables) and the periodic alert job of send_alerts.py.   *)
(*                                                                         *)
(* Temperatures are counted in tenths of a degree Celsius (35.0 C = 350),  *)
(* humidity in whole percent.  A text is a sequence of one-character       *)
(* strings, so that lower(), capitalize() and the substring test are       *)
(* computed and not assumed.                                               *)
(***************************************************************************)
EXTENDS Integers, Sequences, FiniteSets, TLC

VARIABLES
    arg,        \* health_advice: the call's arguments [temp, humidity, condition]
    advice,     \* health_advice: the returned list
    hpc,        \* health_advice: "call" before the call, "ret" after it
    users,      \* table users: a set of rows
    prefs,      \* table preferences: a set of rows
    nextId,     \* AUTOINCREMENT counters [users, prefs]
    now,        \* datetime.now(): the clock, read at every stamp written
    session,    \* st.session_state of every browser session
    shown,      \* what the last run of the script displayed, and to which session
    env,        \* send_alerts.py: which provider credentials are configured
    rows,       \* send_alerts.py main: the fetched result of the join
    idx,        \* send_alerts.py main: the loop's position in rows
    jpc,        \* send_alerts.py main: "start", "loop", "done"
    calls,      \* send_alerts.py: loop passes and provider requests made, per user id
    log         \* send_alerts.py main: what each pass of the loop printed and sent

vars == <<arg, advice, hpc, users, prefs, nextId, now, session, shown, env, rows, idx, jpc,
          calls, log>>

adviceVars == <<arg, advice, hpc>>
dbVars == <<users, prefs, nextId, now>>
jobVars == <<env, rows, idx, jpc, calls, log>>

\* Python's None and SQL's NULL; a value that is present is Some(v)
None == <<>>
Some(v) == <<v>>
the(x) == x[1]

(***************************************************************************)
(* Texts                                                                   *)
(***************************************************************************)
UpperCase == <<"A","B","C","D","E","F","G","H","I","J","K","L","M",
               "N","O","P","Q","R","S","T","U","V","W","X","Y","Z">>
LowerCase == <<"a","b","c","d","e","f","g","h","i","j","k","l","m",
               "n","o","p","q","r","s","t","u","v","w","x","y","z">>

\* str.lower() on one character
lowerChar(c) ==
    IF \E i \in 1..26 : UpperCase[i] = c
    THEN LowerCase[CHOOSE i \in 1..26 : UpperCase[i] = c]
    ELSE c

\* str.upper() on one character
upperChar(c) ==
    IF \E i \in 1..26 : LowerCase[i] = c
    THEN UpperCase[CHOOSE i \in 1..26 : LowerCase[i] = c]
    ELSE c

\* str.lower()
lower(s) == [i \in 1..Len(s) |-> lowerChar(s[i])]

\* str.capitalize(): the first character upper-cased, the rest lower-cased
capitalize(s) == [i \in 1..Len(s) |-> IF i = 1 THEN upperChar(s[i]) ELSE lowerChar(s[i])]

\* Python's  word in text  on strings: word is a contiguous part of text
contains(text, word) ==
    \E i \in 1..(Len(text) - Len(word) + 1) : SubSeq(text, i, i + Len(word) - 1) = word

W_smoke == <<"s","m","o","k","e">>
W_dust == <<"d","u","s","t">>
W_haze == <<"h","a","z","e">>
W_rain == <<"r","a","i","n">>
W_snow == <<"s","n","o","w">>
W_fog == <<"f","o","g">>
W_thunderstorm == <<"t","h","u","n","d","e","r","s","t","o","r","m">>
W_storm == <<"s","t","o","r","m">>
W_wind == <<"w","i","n","d">>

(***************************************************************************)
(* weather_utils.health_advice                                             *)
(***************************************************************************)
TipExtremeHeat == "Extreme heat! Stay indoors during peak hours"
TipWideBrimHat == "Wear a wide-brim hat and light, breathable clothing"
TipVeryHot == "Very hot: stay hydrated, avoid direct sunlight"
TipLooseClothing == "Wear light-colored, loose clothing"
TipHot == "Hot weather: limit outdoor activity during midday"
TipModerate == "Moderate weather: normal precautions, stay hydrated"
TipMildCold == "Mild cold: wear a light jacket"
TipCold == "Cold weather: wear warm clothing, cover extremities"
TipGloves == "Gloves, scarf, and hat recommended"
TipHighHumidity == "High humidity: stay hydrated"
TipLowHumidity == "Low humidity: apply moisturizer"
TipAirPollution == "Air pollution detected: wear N95 mask outdoors"
TipRain == "Carry an umbrella and wear waterproof shoes/clothes"
TipSnow == "Snowy conditions: wear warm waterproof clothing and boots"
TipFog == "Foggy weather: drive carefully"
TipThunderstorm == "Thunderstorm: stay indoors"
TipWind == "Strong wind: secure loose objects"
TipLooksGood == "Weather looks good! Maintain your usual health routine"

\* a slip: the mild-cold band opened at 10 as the cold band is closed, 10.0 in neither
temperature_advice_gap_at_10(temp) ==
    IF temp >= 400 THEN <<TipExtremeHeat, TipWideBrimHat>>
    ELSE IF 350 <= temp /\ temp < 400 THEN <<TipVeryHot, TipLooseClothing>>
    ELSE IF 300 <= temp /\ temp < 350 THEN <<TipHot>>
    ELSE IF 200 <= temp /\ temp < 300 THEN <<TipModerate>>
    ELSE IF 100 < temp /\ temp < 200 THEN <<TipMildCold>>
    ELSE IF temp < 100 THEN <<TipCold, TipGloves>>
    ELSE <<>>

\* a slip: the 20..30 band left without an entry
temperature_advice_no_moderate(temp) ==
    IF temp >= 400 THEN <<TipExtremeHeat, TipWideBrimHat>>
    ELSE IF 350 <= temp /\ temp < 400 THEN <<TipVeryHot, TipLooseClothing>>
    ELSE IF 300 <= temp /\ temp < 350 THEN <<TipHot>>
    ELSE IF 100 <= temp /\ temp < 200 THEN <<TipMildCold>>
    ELSE IF temp < 100 THEN <<TipCold, TipGloves>>
    ELSE <<>>

\* Temperature-based advice (the if/elif chain on temp)
temperature_advice(temp) ==
    IF temp >= 400 THEN <<TipExtremeHeat, TipWideBrimHat>>
    ELSE IF 350 <= temp /\ temp < 400 THEN <<TipVeryHot, TipLooseClothing>>
    ELSE IF 300 <= temp /\ temp < 350 THEN <<TipHot>>
    ELSE IF 200 <= temp /\ temp < 300 THEN <<TipModerate>>
    ELSE IF 100 <= temp /\ temp < 200 THEN <<TipMildCold>>
    ELSE IF temp < 100 THEN <<TipCold, TipGloves>>
    ELSE <<>>

\* a slip: >= 80 for > 80
humidity_advice_ge_80(humidity) ==
    IF humidity >= 80 THEN <<TipHighHumidity>>
    ELSE IF humidity < 30 THEN <<TipLowHumidity>>
    ELSE <<>>

\* Humidity-based advice (the if/elif on humidity)
humidity_advice(humidity) ==
    IF humidity > 80 THEN <<TipHighHumidity>>
    ELSE IF humidity < 30 THEN <<TipLowHumidity>>
    ELSE <<>>

\* a slip: the condition matched as received, lower() forgotten
condition_advice_case_sensitive(condition) ==
    LET condition_lower == condition IN
    (IF \E word \in {W_smoke, W_dust, W_haze} : contains(condition_lower, word)
        THEN <<TipAirPollution>> ELSE <<>>)
    \o (IF contains(condition_lower, W_rain) THEN <<TipRain>> ELSE <<>>)
    \o (IF contains(condition_lower, W_snow) THEN <<TipSnow>> ELSE <<>>)
    \o (IF contains(condition_lower, W_fog) THEN <<TipFog>> ELSE <<>>)
    \o (IF contains(condition_lower, W_thunderstorm) \/ contains(condition_lower, W_storm)
        THEN <<TipThunderstorm>> ELSE <<>>)
    \o (IF contains(condition_lower, W_wind) THEN <<TipWind>> ELSE <<>>)

\* Weather condition advice (the six independent ifs on condition.lower())
condition_advice(condition) ==
    LET condition_lower == lower(condition) IN
    (IF \E word \in {W_smoke, W_dust, W_haze} : contains(condition_lower, word)
        THEN <<TipAirPollution>> ELSE <<>>)
    \o (IF contains(condition_lower, W_rain) THEN <<TipRain>> ELSE <<>>)
    \o (IF contains(condition_lower, W_snow) THEN <<TipSnow>> ELSE <<>>)
    \o (IF contains(condition_lower, W_fog) THEN <<TipFog>> ELSE <<>>)
    \o (IF contains(condition_lower, W_thunderstorm) \/ contains(condition_lower, W_storm)
        THEN <<TipThunderstorm>> ELSE <<>>)
    \o (IF contains(condition_lower, W_wind) THEN <<TipWind>> ELSE <<>>)

\* the fallback appended when nothing was appended
fallback_advice(list) == IF list = <<>> THEN <<TipLooksGood>> ELSE list

health_advice(temp, humidity, condition) ==
    fallback_advice(temperature_advice(temp) \o humidity_advice(humidity)
                    \o condition_advice(condition))

(***************************************************************************)
(* Inputs of health_advice                                                 *)
(***************************************************************************)
MaxTempC == 45
MinTempBelowZeroC == 5
MaxHumidity == 100

\* every half degree from -MinTempBelowZeroC to MaxTempC, in tenths
Temps == {t \in (0 - 10 * MinTempBelowZeroC)..(10 * MaxTempC) : t % 5 = 0}
Humidities == {h \in 0..MaxHumidity : h % 10 \in {0, 1, 5, 9}}

C_clear_sky == <<"c","l","e","a","r"," ","s","k","y">>
C_light_rain == <<"l","i","g","h","t"," ","r","a","i","n">>
C_Light_rain == <<"L","i","g","h","t"," ","r","a","i","n">>
C_HEAVY_RAIN == <<"H","E","A","V","Y"," ","R","A","I","N">>
C_haze == <<"h","a","z","e">>
C_light_snow == <<"l","i","g","h","t"," ","s","n","o","w">>
C_fog == <<"f","o","g">>
C_thunderstorm_with_rain == <<"t","h","u","n","d","e","r","s","t","o","r","m",
                              " ","w","i","t","h"," ","r","a","i","n">>
C_dust_storm == <<"D","u","s","t"," ","s","t","o","r","m">>
C_windy == <<"w","i","n","d","y">>
C_empty == <<>>

Conditions == {C_clear_sky, C_light_rain, C_Light_rain, C_HEAVY_RAIN, C_haze, C_light_snow,
               C_fog, C_thunderstorm_with_rain, C_dust_storm, C_windy, C_empty}

AdviceInputs == [temp : Temps, humidity : Humidities, condition : Conditions]

(***************************************************************************)
(* app.py: form inputs, tables, session state                              *)
(***************************************************************************)
\* what a text widget returns: the text s, typed with surrounding blanks or not
Txt(s) == [s |-> s, pad |-> FALSE]
Padded(s) == [s |-> s, pad |-> TRUE]

\* str.strip()
strip(x) == x.s

\* bcrypt.hashpw(password, gensalt()) and bcrypt.checkpw(password, hash)
hashpw(password) == [bcrypt |-> password]
checkpw(password, pw_hash) == pw_hash = [bcrypt |-> password]

\* the rows of users the alert job may find
MaxUsers == 3
\* the readings of datetime.now() a behaviour takes: 1..MaxClock
MaxClock == 2
Sessions == {"s1", "s2"}

LegacyEmail == "old@x.io"
LegacyPhone == "+15550000"
PhoneTexts == {"+15550001", "+15550002"}
Passwords == {Txt("pw1"), Txt("pw2")}
Pages == {"Home", "About", "Contact"}
RightCode == "123456"

\* the Sign Up form as filled in: complete, or with one required field left blank
CompleteForms ==
    [name : {Padded("Bea")}, email : {Txt("a@x.io"), Padded("b@x.io"), Txt("+15550001")},
     phone : {Txt(p) : p \in PhoneTexts}, address : {Padded("12 Elm St")},
     password : {Txt("pw2")}]
BlankForms ==
    LET f == [name |-> Padded("Bea"), email |-> Txt("b@x.io"), phone |-> Txt("+15550002"),
              address |-> Txt(""), password |-> Txt("pw2")]
    IN {[f EXCEPT !.name = Txt("")], [f EXCEPT !.email = Padded("")],
        [f EXCEPT !.phone = Txt("")], [f EXCEPT !.password = Padded("")]}
SignupForms == CompleteForms \cup BlankForms

LoginIdInputs == {Txt(LegacyEmail), Padded("a@x.io"), Txt("+15550001"), Txt("nobody")}
CityInputs == {Padded(""), Txt("Oslo"), Padded("Pune")}
CodeInputs == {Txt(""), Padded(RightCode), Txt("000000")}

AppReadings == {[temp |-> 360, humidity |-> 85, condition |-> C_light_rain],
                [temp |-> 220, humidity |-> 50, condition |-> C_clear_sky]}

\* a row left by an earlier revision of the table: column verified at its DEFAULT 0
LegacyUser ==
    [id |-> 1, name |-> "Old", email |-> LegacyEmail, phone |-> LegacyPhone,
     address |-> "", password_hash |-> hashpw(Txt("pw1")), verified |-> 0,
     signup_date |-> None, last_login |-> None]

\* a row the application inserted in an earlier run (Sign Up, then OTP verification)
SeedUser ==
    [id |-> 2, name |-> "Ann", email |-> "a@x.io", phone |-> "+15550001",
     address |-> "", password_hash |-> hashpw(Txt("pw1")), verified |-> 1,
     signup_date |-> Some(0), last_login |-> None]

\* st.session_state as the first run of the script leaves it
NewSession ==
    [page |-> "Home", logged_in |-> FALSE, user_id |-> None, email |-> None,
     signup_stage |-> "form", pending_user |-> None]

\* a run of the script: the button that started it, what the widgets next to it held,
\* its st.warning / st.error / st.info / st.success, the tips it listed, and the
\* calls of get_weather it made (Looked: the one call of a check with a city)
Show(s, button, input, msg, tips) ==
    [session |-> s, button |-> button, input |-> input, msg |-> msg, tips |-> tips,
     requests |-> 0]
Looked(run) == [run EXCEPT !.requests = @ + 1]

\* UNIQUE(email), UNIQUE(phone) of CREATE TABLE users
UniqueViolation(table, row) ==
    \E r \in table : r.email = row.email \/ r.phone = row.phone

(***************************************************************************)
(* app.py: navigation                                                      *)
(***************************************************************************)
Nav(s, p) ==
    /\ session' = [session EXCEPT ![s].page = p]
    /\ shown' = Show(s, "Nav", [page |-> p], "", <<>>)
    /\ UNCHANGED <<adviceVars, dbVars, jobVars>>

(***************************************************************************)
(* app.py: Home page, logged in                                            *)
(***************************************************************************)
\* a slip: the SELECT forgotten, every check inserts
save_preferred_city_insert_only(table, user_id, city, id) ==
    table \cup {[id |-> id, user_id |-> user_id, city |-> city]}

\* save preferred city: SELECT 1 ... ; UPDATE or INSERT
save_preferred_city(table, user_id, city, id) ==
    IF \E p \in table : p.user_id = user_id
    THEN {IF p.user_id = user_id THEN [p EXCEPT !.city = city] ELSE p : p \in table}
    ELSE table \cup {[id |-> id, user_id |-> user_id, city |-> city]}

\* a slip: the city saved before the result of the lookup is looked at
CheckHealthAdvice_saves_first(s, city, w) ==
    LET typed == [city |-> city] IN
    /\ session[s].page = "Home"
    /\ session[s].logged_in
    /\ IF strip(city) = ""
       THEN /\ shown' = Show(s, "Check Health Advice", typed, "Please enter a city.", <<>>)
            /\ UNCHANGED <<prefs, nextId>>
       ELSE /\ shown' = IF w = None
                         THEN Looked(Show(s, "Check Health Advice", typed,
                                          "City not found or API error.", <<>>))
                         ELSE Looked(Show(s, "Check Health Advice", typed,
                                          "Health Recommendations",
                                          health_advice(the(w).temp, the(w).humidity,
                                                        the(w).condition)))
            /\ prefs' = save_preferred_city(prefs, the(session[s].user_id), strip(city),
                                              nextId.prefs)
            /\ nextId' = IF \E p \in prefs : p.user_id = the(session[s].user_id)
                         THEN nextId
                         ELSE [nextId EXCEPT !.prefs = @ + 1]
    /\ UNCHANGED <<adviceVars, users, now, session, jobVars>>

\* button "Check Health Advice"; w is what get_weather returns
CheckHealthAdvice(s, city, w) ==
    LET typed == [city |-> city] IN
    /\ session[s].page = "Home"
    /\ session[s].logged_in
    /\ IF strip(city) = ""
       THEN /\ shown' = Show(s, "Check Health Advice", typed, "Please enter a city.", <<>>)
            /\ UNCHANGED <<prefs, nextId>>
       ELSE IF w = None
       THEN /\ shown' = Looked(Show(s, "Check Health Advice", typed,
                                    "City not found or API error.", <<>>))
            /\ UNCHANGED <<prefs, nextId>>
       ELSE /\ shown' = Looked(Show(s, "Check Health Advice", typed,
                                    "Health Recommendations",
                                    health_advice(the(w).temp, the(w).humidity,
                                                  the(w).condition)))
            /\ prefs' = save_preferred_city(prefs, the(session[s].user_id), strip(city),
                                              nextId.prefs)
            /\ nextId' = IF \E p \in prefs : p.user_id = the(session[s].user_id)
                         THEN nextId
                         ELSE [nextId EXCEPT !.prefs = @ + 1]
    /\ UNCHANGED <<adviceVars, users, now, session, jobVars>>

\* button "Logout"
Logout(s) ==
    /\ session[s].page = "Home"
    /\ session[s].logged_in
    /\ session' = [session EXCEPT ![s] =
                       [@ EXCEPT !.logged_in = FALSE, !.user_id = None, !.email = None]]
    /\ shown' = Show(s, "Logout", [page |-> "Home"], "", <<>>)
    /\ UNCHANGED <<adviceVars, dbVars, jobVars>>

(***************************************************************************)
(* app.py: Home page, Login tab                                            *)
(***************************************************************************)
\* SELECT id, password_hash, verified, email FROM users WHERE email=? OR phone=?
login_rows(table, login_id) == {r \in table : r.email = login_id \/ r.phone = login_id}

\* a slip: the verified flag not looked at
login_result_unverified_ok(row, password) ==
    IF row = None THEN [ok |-> FALSE, msg |-> "User not found."]
    ELSE IF checkpw(password, the(row).password_hash) THEN [ok |-> TRUE, msg |-> ""]
    ELSE [ok |-> FALSE, msg |-> "Incorrect password."]

\* the (ok, msg) email_or_phone_login returns for the fetched row (None: no row)
login_result(row, password) ==
    IF row = None THEN [ok |-> FALSE, msg |-> "User not found."]
    ELSE IF the(row).verified = 0
    THEN [ok |-> FALSE, msg |-> "Your account is not verified yet."]
    ELSE IF checkpw(password, the(row).password_hash) THEN [ok |-> TRUE, msg |-> ""]
    ELSE [ok |-> FALSE, msg |-> "Incorrect password."]

\* UPDATE users SET last_login=? WHERE id=?
update_last_login(table, uid, stamp) ==
    {IF r.id = uid THEN [r EXCEPT !.last_login = stamp] ELSE r : r \in table}

\* email_or_phone_login on the row fetchone() returned
email_or_phone_login(s, login_id, row, password) ==
    LET res == login_result(row, password)
        typed == [login_id |-> login_id, password |-> password]
    IN
    IF res.ok
    THEN /\ now < MaxClock
         /\ session' = [session EXCEPT ![s] =
                            [@ EXCEPT !.logged_in = TRUE,
                                      !.user_id = Some(the(row).id),
                                      !.email = Some(the(row).email)]]
         /\ shown' = Show(s, "Login", typed, "", <<>>)
         /\ users' = update_last_login(users, the(row).id, Some(now + 1))
         /\ now' = now + 1
    ELSE /\ shown' = Show(s, "Login", typed, res.msg, <<>>)
         /\ UNCHANGED <<users, now, session>>

\* button "Login"
Login(s, login_id, password) ==
    /\ session[s].page = "Home"
    /\ ~session[s].logged_in
    /\ LET found == login_rows(users, strip(login_id)) IN
       IF found = {}
       THEN email_or_phone_login(s, login_id, None, password)
       ELSE \E row \in found : email_or_phone_login(s, login_id, Some(row), password)
    /\ UNCHANGED <<adviceVars, prefs, nextId, jobVars>>

(***************************************************************************)
(* app.py: Home page, Sign Up tab                                          *)
(***************************************************************************)
\* a slip: the phone left out of the WHERE clause
account_exists_email_only(table, email, phone) == \E r \in table : r.email = email

\* SELECT 1 FROM users WHERE email=? OR phone=?
account_exists(table, email, phone) == \E r \in table : r.email = email \/ r.phone = phone

\* not all([name.strip(), email.strip(), phone.strip(), pw.strip()])
missing_required(name, email, phone, pw) ==
    strip(name) = "" \/ strip(email) = "" \/ strip(phone) = "" \/ strip(pw) = ""

\* send_verify_code: Twilio Verify creates the verification (TRUE) or the SID is
\* not configured or the request raises (FALSE)
TwilioSendOutcomes == {TRUE, FALSE}

\* check_verify_code: the status Twilio Verify answers for phone and code.strip(),
\* or an exception; only the code that was sent is approved
TwilioCheckOutcomes(code) ==
    IF strip(code) = RightCode THEN {"approved", "pending", "exception"}
    ELSE {"pending", "exception"}

\* a slip: every answer of Twilio Verify taken for an approval
check_verify_code_any_answer(status) == status # "exception"

\* check_verify_code: res.status == "approved"; an exception gives False
check_verify_code(status) == status = "approved"

\* button "Send OTP" (signup_stage "form")
SendOTP(s, name, email, phone, address, pw, sent) ==
    LET form == [name |-> name, email |-> email, phone |-> phone, address |-> address,
                 password |-> pw] IN
    /\ session[s].page = "Home"
    /\ ~session[s].logged_in
    /\ session[s].signup_stage = "form"
    /\ IF missing_required(name, email, phone, pw)
       THEN /\ shown' = Show(s, "Send OTP", form, "Please fill all required fields.", <<>>)
            /\ UNCHANGED session
       ELSE IF account_exists(users, strip(email), strip(phone))
       THEN /\ shown' = Show(s, "Send OTP", form,
                             "An account with this email/phone already exists.", <<>>)
            /\ UNCHANGED session
       ELSE IF sent
       THEN /\ session' = [session EXCEPT ![s] =
                   [@ EXCEPT !.pending_user =
                                 Some([name |-> strip(name), email |-> strip(email),
                                       phone |-> strip(phone), address |-> strip(address),
                                       password |-> pw]),
                             !.signup_stage = "otp"]]
            /\ shown' = Show(s, "Send OTP", form, "OTP sent.", <<>>)
       ELSE /\ shown' = Show(s, "Send OTP", form, "Failed to send OTP.", <<>>)
            /\ UNCHANGED session
    /\ UNCHANGED <<adviceVars, dbVars, jobVars>>

\* INSERT INTO users(name,email,phone,address,password_hash,verified,signup_date)
new_user(pu, id, stamp) ==
    [id |-> id, name |-> pu.name, email |-> pu.email, phone |-> pu.phone,
     address |-> pu.address, password_hash |-> hashpw(pu.password), verified |-> 1,
     signup_date |-> Some(stamp), last_login |-> None]

\* button "Verify & Create Account" (signup_stage "otp")
VerifyOTP(s, code, status) ==
    /\ session[s].page = "Home"
    /\ ~session[s].logged_in
    /\ session[s].signup_stage = "otp"
    /\ LET pu == session[s].pending_user
           typed == [code |-> code]
       IN
       IF strip(code) = ""
       THEN /\ shown' = Show(s, "Verify & Create Account", typed, "Enter the OTP.", <<>>)
            /\ UNCHANGED <<users, nextId, now, session>>
       ELSE IF pu = None
       THEN /\ shown' = Show(s, "Verify & Create Account", typed,
                             "No pending signup found.", <<>>)
            /\ UNCHANGED <<users, nextId, now, session>>
       ELSE IF ~check_verify_code(status)
       THEN /\ shown' = Show(s, "Verify & Create Account", typed,
                             "Invalid or expired code.", <<>>)
            /\ UNCHANGED <<users, nextId, now, session>>
       ELSE IF UniqueViolation(users, new_user(the(pu), nextId.users, now + 1))
       THEN \* the INSERT raises sqlite3.IntegrityError; the run ends there
            /\ shown' = Show(s, "Verify & Create Account", typed,
                             "sqlite3.IntegrityError", <<>>)
            /\ UNCHANGED <<users, nextId, now, session>>
       ELSE /\ now < MaxClock
            /\ users' = users \cup {new_user(the(pu), nextId.users, now + 1)}
            /\ nextId' = [nextId EXCEPT !.users = @ + 1]
            /\ now' = now + 1
            /\ session' = [session EXCEPT ![s] =
                               [@ EXCEPT !.signup_stage = "form", !.pending_user = None]]
            /\ shown' = Show(s, "Verify & Create Account", typed,
                             "Phone verified & account created!", <<>>)
    /\ UNCHANGED <<adviceVars, prefs, jobVars>>

\* button "Resend OTP"
ResendOTP(s, sent) ==
    /\ session[s].page = "Home"
    /\ ~session[s].logged_in
    /\ session[s].signup_stage = "otp"
    /\ shown' = IF session[s].pending_user # None /\ sent
                 THEN Show(s, "Resend OTP", [page |-> "Home"], "OTP resent.", <<>>)
                 ELSE IF session[s].pending_user # None
                 THEN Show(s, "Resend OTP", [page |-> "Home"], "Failed to send OTP.", <<>>)
                 ELSE Show(s, "Resend OTP", [page |-> "Home"], "", <<>>)
    /\ UNCHANGED <<adviceVars, dbVars, session, jobVars>>

\* a slip: the stage reset, the pending signup kept
Cancel_keeps_pending(s) ==
    /\ session[s].page = "Home"
    /\ ~session[s].logged_in
    /\ session[s].signup_stage = "otp"
    /\ session' = [session EXCEPT ![s] = [@ EXCEPT !.signup_stage = "form"]]
    /\ shown' = Show(s, "Cancel", [page |-> "Home"], "", <<>>)
    /\ UNCHANGED <<adviceVars, dbVars, jobVars>>

\* button "Cancel"
Cancel(s) ==
    /\ session[s].page = "Home"
    /\ ~session[s].logged_in
    /\ session[s].signup_stage = "otp"
    /\ session' = [session EXCEPT ![s] =
                       [@ EXCEPT !.signup_stage = "form", !.pending_user = None]]
    /\ shown' = Show(s, "Cancel", [page |-> "Home"], "", <<>>)
    /\ UNCHANGED <<adviceVars, dbVars, jobVars>>

(***************************************************************************)
(* send_alerts.py: the periodic alert job                                  *)
(***************************************************************************)
JobReadings == {[temp |-> 360, humidity |-> 85, condition |-> C_light_rain],
                [temp |-> 100, humidity |-> 30, condition |-> C_clear_sky]}

\* what get_weather returns: None (unknown city, no "main", any exception) or a reading
WeatherOutcomes == {None} \cup {Some(r) : r \in JobReadings}

\* client.messages.create: returns a message, or raises
SmsOutcomes == {"sent", "raised"}

\* requests.post to SendGrid: raises, or answers with a status code
EmailOutcomes == {[raised |-> TRUE, status_code |-> 0]}
                 \cup {[raised |-> FALSE, status_code |-> c] : c \in {200, 202, 400}}

\* a slip: the WHERE clause left out
join_where_all(u) == TRUE

\* SELECT ... FROM users u LEFT JOIN preferences p ON p.user_id = u.id WHERE u.verified = 1
join_where(u) == u.verified = 1

join_rows(utable, ptable) ==
    LET matched(u) == {p \in ptable : p.user_id = u.id}
        row(u, pid, city) == [uid |-> u.id, name |-> u.name, email |-> u.email,
                              phone |-> u.phone, verified |-> u.verified,
                              pid |-> pid, city |-> city]
    IN UNION {IF matched(u) = {} THEN {row(u, 0, None)}
              ELSE {row(u, p.id, Some(p.city)) : p \in matched(u)}
              : u \in {v \in utable : join_where(v)}}

\* the rows in the order of the scan: by users.id, then preferences.id
RECURSIVE fetchall(_)
fetchall(S) ==
    IF S = {} THEN <<>>
    ELSE LET first == CHOOSE r \in S : \A q \in S :
                          r.uid < q.uid \/ (r.uid = q.uid /\ r.pid <= q.pid)
         IN <<first>> \o fetchall(S \ {first})

\* send_sms: (ok, requests made)
send_sms(configured, sms) ==
    IF ~configured THEN [ok |-> FALSE, requests |-> 0]
    ELSE IF sms = "sent" THEN [ok |-> TRUE, requests |-> 1]
    ELSE [ok |-> FALSE, requests |-> 1]

\* a slip: every answer of SendGrid taken for a success
send_email_any_status(configured, mail) ==
    IF ~configured THEN [ok |-> FALSE, requests |-> 0]
    ELSE IF mail.raised THEN [ok |-> FALSE, requests |-> 1]
    ELSE [ok |-> TRUE, requests |-> 1]

\* send_email: (ok, requests made)
send_email(configured, mail) ==
    IF ~configured THEN [ok |-> FALSE, requests |-> 0]
    ELSE IF mail.raised THEN [ok |-> FALSE, requests |-> 1]
    ELSE IF mail.status_code \in {200, 202} THEN [ok |-> TRUE, requests |-> 1]
    ELSE [ok |-> FALSE, requests |-> 1]

\* build_alert_message: the advice list of the body (cond is capitalized first)
build_alert_message(w) == health_advice(w.temp, w.humidity, capitalize(w.condition))

NoCalls == [visits |-> 0, weather |-> 0, sms |-> 0, email |-> 0]

\* main, up to the loop: connect, run the query, fetchall
JobStart ==
    /\ jpc = "start"
    /\ rows' = fetchall(join_rows(users, prefs))
    /\ idx' = 1
    /\ jpc' = "loop"
    /\ UNCHANGED <<adviceVars, dbVars, session, shown, env, calls, log>>

\* the previous temperature and humidity stored for a user: CREATE TABLE preferences
\* has the columns id, user_id and city, and a row holds no reading
previous_reading(ptable, uid) ==
    LET own == {p \in ptable : p.user_id = uid /\ {"temp", "humidity"} \subseteq DOMAIN p}
    IN IF own = {} THEN None
       ELSE LET p == CHOOSE q \in own : TRUE IN Some([temp |-> p.temp, humidity |-> p.humidity])

Abs(n) == IF n < 0 THEN 0 - n ELSE n

\* the rule of a change-triggered alert: |dtemp| >= 2.0 or |dhumidity| >= 10
changed(prev, w) ==
    /\ prev # None
    /\ \/ Abs(w.temp - the(prev).temp) >= 20
       \/ Abs(w.humidity - the(prev).humidity) >= 10

NotSent == [ok |-> FALSE, requests |-> 0]

\* a pass that notifies on a change of the stored readings only
process_row_on_change(r, w, sms, mail) ==
    IF r.city = None \/ the(r.city) = ""
    THEN [printed |-> "no saved city - skipping", weather |-> 0, sms |-> NotSent,
          email |-> NotSent, advice |-> <<>>]
    ELSE IF w = None
    THEN [printed |-> "Weather fetch failed", weather |-> 1, sms |-> NotSent,
          email |-> NotSent, advice |-> <<>>]
    ELSE IF ~changed(previous_reading(prefs, r.uid), the(w))
    THEN [printed |-> "no change", weather |-> 1, sms |-> NotSent,
          email |-> NotSent, advice |-> <<>>]
    ELSE LET s == IF r.phone # "" THEN send_sms(env.twilio, sms) ELSE NotSent
             m == IF r.email # "" THEN send_email(env.sendgrid, mail) ELSE NotSent
             sent_any == s.ok \/ m.ok
         IN [printed |-> IF sent_any THEN "Alert delivered" ELSE "Failed to deliver alert",
             weather |-> 1, sms |-> s, email |-> m,
             advice |-> build_alert_message(the(w))]

\* one pass of  for uid, name, email, phone, verified, city in rows
process_row(r, w, sms, mail) ==
    IF r.city = None \/ the(r.city) = ""
    THEN [printed |-> "no saved city - skipping", weather |-> 0, sms |-> NotSent,
          email |-> NotSent, advice |-> <<>>]
    ELSE IF w = None
    THEN [printed |-> "Weather fetch failed", weather |-> 1, sms |-> NotSent,
          email |-> NotSent, advice |-> <<>>]
    ELSE LET s == IF r.phone # "" THEN send_sms(env.twilio, sms) ELSE NotSent
             m == IF r.email # "" THEN send_email(env.sendgrid, mail) ELSE NotSent
             sent_any == s.ok \/ m.ok
         IN [printed |-> IF sent_any THEN "Alert delivered" ELSE "Failed to deliver alert",
             weather |-> 1, sms |-> s, email |-> m,
             advice |-> build_alert_message(the(w))]

JobStep(w, sms, mail) ==
    /\ jpc = "loop"
    /\ idx <= Len(rows)
    /\ LET r == rows[idx]
           done == process_row(r, w, sms, mail)
       IN /\ calls' = [calls EXCEPT ![r.uid] =
                          [visits |-> @.visits + 1, weather |-> @.weather + done.weather,
                           sms |-> @.sms + done.sms.requests,
                           email |-> @.email + done.email.requests]]
          /\ log' = Append(log,
                 [uid |-> r.uid, printed |-> done.printed,
                  w |-> IF done.weather = 1 THEN w ELSE None,
                  \* the provider's answer to each request made, and what send_* returned
                  sms |-> IF done.sms.requests = 1 THEN Some(sms) ELSE None,
                  sms_ok |-> done.sms.ok,
                  mail |-> IF done.email.requests = 1 THEN Some(mail) ELSE None,
                  email_ok |-> done.email.ok,
                  advice |-> done.advice])
    /\ idx' = idx + 1
    /\ UNCHANGED <<adviceVars, dbVars, session, shown, env, rows, jpc>>

\* the loop is over: conn.close()
JobFinish ==
    /\ jpc = "loop"
    /\ idx > Len(rows)
    /\ jpc' = "done"
    /\ UNCHANGED <<adviceVars, dbVars, session, shown, env, rows, idx, calls, log>>

(***************************************************************************)
(* Specifications                                                          *)
(***************************************************************************)
AdviceIdle ==
    /\ arg = [temp |-> 0, humidity |-> 0, condition |-> C_empty]
    /\ advice = <<>>
    /\ hpc = "idle"

JobIdle ==
    /\ env = [twilio |-> FALSE, sendgrid |-> FALSE]
    /\ rows = <<>>
    /\ idx = 0
    /\ jpc = "off"
    /\ calls = <<>>
    /\ log = <<>>

AppIdle ==
    /\ session = [s \in Sessions |-> NewSession]
    /\ shown = Show("s1", "", [page |-> "Home"], "", <<>>)
    /\ now = 0

\* ---- the application: database.db holds two rows of earlier runs; two browser sessions
Init ==
    /\ users = {LegacyUser, SeedUser}
    /\ prefs = {}
    /\ nextId = [users |-> 3, prefs |-> 1]
    /\ AppIdle
    /\ AdviceIdle
    /\ JobIdle

Next ==
    \E s \in Sessions :
        \/ \E p \in Pages : Nav(s, p)
        \/ \E city \in CityInputs, w \in {None} \cup {Some(r) : r \in AppReadings} :
               CheckHealthAdvice(s, city, w)
        \/ Logout(s)
        \/ \E login_id \in LoginIdInputs, password \in Passwords : Login(s, login_id, password)
        \/ \E f \in SignupForms, sent \in TwilioSendOutcomes :
               SendOTP(s, f.name, f.email, f.phone, f.address, f.password, sent)
        \/ \E code \in CodeInputs : \E status \in TwilioCheckOutcomes(code) :
               VerifyOTP(s, code, status)
        \/ \E sent \in TwilioSendOutcomes : ResendOTP(s, sent)
        \/ Cancel(s)

Spec == Init /\ [][Next]_vars

\* ---- health_advice as a function of its arguments
Advise ==
    /\ hpc = "call"
    /\ advice' = health_advice(arg.temp, arg.humidity, arg.condition)
    /\ hpc' = "ret"
    /\ UNCHANGED <<arg, dbVars, session, shown, jobVars>>

AdviceInit ==
    /\ arg \in AdviceInputs
    /\ advice = <<>>
    /\ hpc = "call"
    /\ users = {}
    /\ prefs = {}
    /\ nextId = [users |-> 1, prefs |-> 1]
    /\ AppIdle
    /\ JobIdle

AdviceNext == Advise

AdviceSpec == AdviceInit /\ [][AdviceNext]_vars

\* ---- one run of the alert job on a database the application left behind
\* the city a preferences row holds when the job runs
JobCities == {"Pune"}
JobEmailPool == <<LegacyEmail, "a@x.io", "+15550001", "b@x.io", "c@x.io">>
JobPhonePool == <<LegacyPhone, "+15550001", "+15550002", "+15550003", "+15550004">>

JobUser(i) ==
    IF i = 1 THEN LegacyUser
    ELSE IF i = 2 THEN SeedUser
    ELSE new_user([name |-> "Bea", email |-> JobEmailPool[i], phone |-> JobPhonePool[i],
                   address |-> "12 Elm St", password |-> Txt("pw2")], i, i)

JobInit ==
    /\ users \in SUBSET {JobUser(i) : i \in 1..MaxUsers}
    /\ \E city \in [{u.id : u \in {v \in users : v.verified = 1}}
                       -> {None} \cup {Some(c) : c \in JobCities}] :
          prefs = {[id |-> i, user_id |-> i, city |-> the(city[i])] :
                       i \in {j \in DOMAIN city : city[j] # None}}
    /\ nextId = [users |-> MaxUsers + 1, prefs |-> MaxUsers + 1]
    /\ AppIdle
    /\ AdviceIdle
    /\ env \in [twilio : BOOLEAN, sendgrid : BOOLEAN]
    /\ rows = <<>>
    /\ idx = 0
    /\ jpc = "start"
    /\ calls = [i \in {u.id : u \in users} |-> NoCalls]
    /\ log = <<>>

JobNext ==
    \/ JobStart
    \/ \E w \in WeatherOutcomes, sms \in SmsOutcomes, mail \in EmailOutcomes :
           JobStep(w, sms, mail)
    \/ JobFinish

JobSpec == JobInit /\ [][JobNext]_vars

\* the job is a sequential script: it keeps running until main returns
FairJobSpec == JobSpec /\ WF_vars(JobNext)

(***************************************************************************)
(* Properties of health_advice (AdviceSpec)                                *)
(***************************************************************************)
Range(list) == {list[i] : i \in 1..Len(list)}

HeatTips == {TipExtremeHeat, TipWideBrimHat, TipVeryHot, TipLooseClothing, TipHot}
ColdTips == {TipMildCold, TipCold, TipGloves}
NeutralTips == {TipModerate}
TemperatureTips == HeatTips \cup ColdTips \cup NeutralTips
HumidityTips == {TipHighHumidity, TipLowHumidity}
ConditionTips == {TipAirPollution, TipRain, TipSnow, TipFog, TipThunderstorm, TipWind}

\* the conditions of Conditions that hold "rain" in some letter case
RainyConditions == {C_light_rain, C_Light_rain, C_HEAVY_RAIN, C_thunderstorm_with_rain}

\* the conditions of Conditions that hold none of the keywords
PlainConditions == {C_clear_sky, C_empty}

Returned == hpc = "ret"

\* C2 as the spec states it: t >= 35 gives a heat-related entry, t <= 10 a cold-related
\* entry, and every other t a neutral temperature entry, neither heat- nor cold-related.
C2_AsStated ==
    Returned =>
        /\ arg.temp >= 350 => Range(advice) \cap HeatTips # {}
        /\ arg.temp <= 100 => Range(advice) \cap ColdTips # {}
        /\ (100 < arg.temp /\ arg.temp < 350) =>
               /\ Range(advice) \cap NeutralTips # {}
               /\ Range(advice) \cap (HeatTips \cup ColdTips) = {}

\* C2 amended: t >= 35 gives a heat-related entry and t <= 10 a cold-related one; between
\* them the one temperature entry is neutral only for 20 <= t < 30; it is the cold-related
\* "Mild cold" for 10 < t < 20 and the heat-related "Hot weather" for 30 <= t < 35.
C2_TemperatureBands ==
    Returned =>
        /\ arg.temp >= 350 => Range(advice) \cap HeatTips # {}
        /\ arg.temp <= 100 => Range(advice) \cap ColdTips # {}
        /\ (100 < arg.temp /\ arg.temp < 200) =>
               Range(advice) \cap TemperatureTips = {TipMildCold}
        /\ (200 <= arg.temp /\ arg.temp < 300) =>
               Range(advice) \cap TemperatureTips = {TipModerate}
        /\ (300 <= arg.temp /\ arg.temp < 350) =>
               Range(advice) \cap TemperatureTips = {TipHot}
        /\ arg.temp >= 350 => Range(advice) \cap (ColdTips \cup NeutralTips) = {}
        /\ arg.temp <= 100 => Range(advice) \cap (HeatTips \cup NeutralTips) = {}

\* 10.0 degrees exactly: the boundary the amended and the stated claim share
C2_Witness ==
    /\ Returned
    /\ arg.temp = 100
    /\ TipMildCold \in Range(advice)

\* C3: humidity > 80 gives the high-humidity entry, humidity < 30 the dry-air entry,
\* 30 <= humidity <= 80 neither, and the two never appear together.
C3_HumidityEntries ==
    Returned =>
        /\ arg.humidity > 80 => TipHighHumidity \in Range(advice)
        /\ arg.humidity < 30 => TipLowHumidity \in Range(advice)
        /\ (30 <= arg.humidity /\ arg.humidity <= 80) => Range(advice) \cap HumidityTips = {}
        /\ ~(TipHighHumidity \in Range(advice) /\ TipLowHumidity \in Range(advice))

C3_Witness ==
    /\ Returned
    /\ arg.humidity = 80
    /\ arg.temp = 360
    /\ Range(advice) \cap HumidityTips = {}

\* C5: the entries come in the order temperature, humidity, condition; a condition that
\* holds "rain" in any letter case adds the rain tip to whatever temperature and
\* humidity entries apply; 36 C, 85 %, "light rain" gives the heat tip(s), the
\* high-humidity tip, the rain tip, in that order.
C5_GroupsInOrder ==
    Returned =>
        /\ \A i, j \in 1..Len(advice) :
              i < j =>
                  /\ advice[j] \in TemperatureTips => advice[i] \in TemperatureTips
                  /\ advice[i] \in ConditionTips => advice[j] \in ConditionTips
        /\ arg.condition \in RainyConditions =>
              /\ TipRain \in Range(advice)
              /\ Range(advice) \cap TemperatureTips # {}
              /\ arg.humidity > 80 => TipHighHumidity \in Range(advice)
              /\ arg.humidity < 30 => TipLowHumidity \in Range(advice)
        /\ (arg.temp = 360 /\ arg.humidity = 85 /\ arg.condition = C_light_rain) =>
              advice = <<TipVeryHot, TipLooseClothing, TipHighHumidity, TipRain>>

C5_Witness ==
    /\ Returned
    /\ arg = [temp |-> 360, humidity |-> 85, condition |-> C_light_rain]
    /\ Len(advice) = 4

\* the inputs that cross no threshold: the band of the neutral temperature entry,
\* humidity from 30 to 80, a condition without keyword
NoThresholdCrossed ==
    /\ 200 <= arg.temp /\ arg.temp < 300
    /\ 30 <= arg.humidity /\ arg.humidity <= 80
    /\ arg.condition \in PlainConditions

\* C10 as the spec states it: inputs that cross no threshold give the empty list.
C10_AsStated == (Returned /\ NoThresholdCrossed) => advice = <<>>

\* C10 amended: health_advice never returns the empty list; inputs that cross no
\* threshold give the one neutral entry "Moderate weather".
C10_NeverEmpty ==
    Returned =>
        /\ advice # <<>>
        /\ NoThresholdCrossed => advice = <<TipModerate>>

C10_Witness ==
    /\ Returned
    /\ NoThresholdCrossed
    /\ Len(advice) = 1

(***************************************************************************)
(* Properties of the alert job (JobSpec, FairJobSpec)                      *)
(***************************************************************************)
\* an email or an SMS request was made for the user
dispatched(uid) == calls[uid].sms + calls[uid].email > 0

\* the passes of the loop made for a user
passes(uid) == {k \in 1..Len(log) : log[k].uid = uid}

verified_ids == {u.id : u \in {v \in users : v.verified = 1}}
saved_city(uid) == \E p \in prefs : p.user_id = uid /\ p.city # ""

sms_failed(e) == e.sms # None /\ the(e.sms) = "raised"
mail_failed(e) ==
    e.mail # None /\ (the(e.mail).raised \/ the(e.mail).status_code \notin {200, 202})

C8_Contained ==
    /\ \A k \in 1..Len(log) :
          \* the failure is the False that send_sms / send_email returns
          /\ sms_failed(log[k]) => ~log[k].sms_ok
          /\ mail_failed(log[k]) => ~log[k].email_ok
          /\ (log[k].sms # None /\ ~sms_failed(log[k])) => log[k].sms_ok
          /\ (log[k].mail # None /\ ~mail_failed(log[k])) => log[k].email_ok
          /\ log[k].printed = "Alert delivered" <=> (log[k].sms_ok \/ log[k].email_ok)
    \* not retried: one request at most to each provider in a pass
    /\ \A uid \in DOMAIN calls :
          /\ calls[uid].sms <= calls[uid].visits
          /\ calls[uid].email <= calls[uid].visits
    \* the loop goes on: one pass made for every row before the one at idx
    /\ jpc = "loop" => Len(log) = idx - 1
    /\ jpc = "done" => Len(log) = Len(rows)

\* C8: a failure of the SMS or email provider (exception or non-success status) becomes
\* a False result; it changes no row of users or preferences, is not retried, and the
\* job goes on to the remaining users.
C8_ProviderFailure == [](C8_Contained) /\ [][users' = users /\ prefs' = prefs]_vars

\* both providers fail for the first user, and the next user is served
C8_Witness ==
    /\ Len(log) >= 2
    /\ sms_failed(log[1])
    /\ mail_failed(log[1])
    /\ log[1].printed = "Failed to deliver alert"
    /\ log[2].printed = "Alert delivered"

\* C9 as the spec states it: when the job is done every stored user was visited exactly
\* once, with at most one weather request and one request to a notification API; users
\* without a saved city or with a failed fetch got none.  The stored users are taken to
\* be the rows the application inserts, all of them verified.
C9_AsStated ==
    jpc = "done" =>
        \A u \in {v \in users : v.verified = 1} :
            /\ calls[u.id].visits = 1
            /\ calls[u.id].weather <= 1
            /\ \A k \in passes(u.id) :
                  IF log[k].w # None /\ (env.twilio \/ env.sendgrid)
                  THEN calls[u.id].sms + calls[u.id].email = 1
                  ELSE calls[u.id].sms + calls[u.id].email = 0

C9_Visits ==
    /\ \A u \in users :
          /\ calls[u.id].visits <= 1
          /\ calls[u.id].weather <= calls[u.id].visits
          /\ calls[u.id].sms <= 1
          /\ calls[u.id].email <= 1
          /\ u.verified # 1 => calls[u.id].visits = 0
          /\ \A k \in passes(u.id) :
                IF log[k].w # None
                THEN /\ calls[u.id].sms = (IF env.twilio THEN 1 ELSE 0)
                     /\ calls[u.id].email = (IF env.sendgrid THEN 1 ELSE 0)
                ELSE calls[u.id].sms + calls[u.id].email = 0
          /\ ~saved_city(u.id) => calls[u.id].weather = 0
    /\ jpc = "done" => \A u \in users : u.verified = 1 => calls[u.id].visits = 1
    /\ \A k \in 1..Len(log) : log[k].uid = rows[k].uid

\* C9 amended: the job visits every verified stored user, in the order of the fetched
\* rows, exactly once; for each it makes at most one weather request, at most one SMS
\* request and at most one email request (both when both providers are configured);
\* users without a saved city or with a failed fetch get no notification request; and
\* the job terminates after the last row whatever the calls answered.
C9_VisitsAndTerminates == [](C9_Visits) /\ <>(jpc = "done")

\* a user who got an SMS request and an email request in the one pass made for them
C9_Witness ==
    /\ jpc = "done"
    /\ Len(rows) >= 2
    /\ \E u \in users : calls[u.id].visits = 1 /\ calls[u.id].sms = 1 /\ calls[u.id].email = 1

(***************************************************************************)
(* Properties of the application (Spec)                                    *)
(***************************************************************************)
\* the step is a run of the script for session s, started by this button
Clicked(s, button) == shown'.session = s /\ shown'.button = button

\* a row of users holds this email or this phone
taken(email, phone) == \E r \in users : r.email = email \/ r.phone = phone

\* every required field of the submitted form holds more than blanks
filled(f) == f.name.s # "" /\ f.email.s # "" /\ f.phone.s # "" /\ f.password.s # ""

C4_SendOTP ==
    \A s \in Sessions :
        Clicked(s, "Send OTP") =>
            LET f == shown'.input IN
            /\ users' = users
            /\ (filled(f) /\ taken(f.email.s, f.phone.s)) =>
                   /\ session' = session
                   /\ shown'.msg = "An account with this email/phone already exists."
            /\ session'[s].pending_user # None =>
                   /\ filled(f) /\ ~taken(f.email.s, f.phone.s)
                   /\ the(session'[s].pending_user).email = f.email.s
                   /\ the(session'[s].pending_user).phone = f.phone.s

C4_VerifyOTP ==
    \A s \in Sessions :
        (Clicked(s, "Verify & Create Account") /\ session[s].pending_user # None) =>
            LET pu == the(session[s].pending_user) IN
            /\ taken(pu.email, pu.phone) =>
                   /\ users' = users
                   /\ shown'.msg \in {"sqlite3.IntegrityError", "Invalid or expired code.",
                                      "Enter the OTP."}
            /\ shown'.msg = "Phone verified & account created!" =>
                   /\ ~taken(pu.email, pu.phone)
                   /\ shown'.input.code.s = RightCode
                   /\ Cardinality(users') = Cardinality(users) + 1
                   /\ \E row \in users' :
                         /\ users' = users \cup {row}
                         /\ row.name = pu.name /\ row.email = pu.email
                         /\ row.phone = pu.phone /\ row.address = pu.address
                         /\ row.password_hash = [bcrypt |-> pu.password]
                         /\ row.verified = 1
                         /\ \A r \in users : r.id # row.id
            /\ users' # users => shown'.msg = "Phone verified & account created!"

C4_NoDuplicate ==
    \A r1, r2 \in users :
        (r1.email = r2.email \/ r1.phone = r2.phone \/ r1.id = r2.id) => r1 = r2

\* C4: a signup whose email or phone is that of a row of users adds no row and reports
\* an error, at Send OTP and at the INSERT alike; a signup with every required field
\* filled and an email and phone no row holds, its OTP approved, adds exactly one row
\* with those values; no two rows ever share an email or a phone, and only an approved
\* signup adds a row.
C4_Signup ==
    /\ [](C4_NoDuplicate)
    /\ [][C4_SendOTP /\ C4_VerifyOTP]_vars
    /\ [][Cardinality(users') # Cardinality(users) =>
              shown'.msg = "Phone verified & account created!"]_vars

\* one signup was accepted (the third row) and a second one, holding the same email or
\* phone, was refused by the INSERT
C4_Witness ==
    /\ Cardinality(users) = 3
    /\ shown.msg = "sqlite3.IntegrityError"

C6_OnePerUser ==
    \A p, q \in prefs : p.user_id = q.user_id => p = q

C6_Check ==
    \A s \in Sessions :
        (Clicked(s, "Check Health Advice") /\ shown'.msg = "Health Recommendations") =>
            LET uid == the(session[s].user_id) IN
            /\ \E p \in prefs' :
                  /\ p.user_id = uid
                  /\ p.city = shown'.input.city.s
                  \* the row is the one the user's first check created
                  /\ \A q \in prefs : q.user_id = uid => q.id = p.id
            /\ {q \in prefs' : q.user_id # uid} = {q \in prefs : q.user_id # uid}

\* C6: preferences holds at most one row for a user_id; a successful check leaves that
\* user's row, created by the first check, with the city just entered, whichever session
\* made the check, and no row of another user changes; nothing else writes the table.
C6_LastWriteWins ==
    /\ [](C6_OnePerUser)
    /\ [][C6_Check]_vars
    /\ [][prefs' # prefs => shown'.msg = "Health Recommendations"]_vars

\* two sessions logged in as the same user, whose one row holds the city s2 entered last
C6_Witness ==
    /\ session["s1"].logged_in /\ session["s2"].logged_in
    /\ session["s1"].user_id = session["s2"].user_id
    /\ shown.session = "s2" /\ shown.msg = "Health Recommendations"
    /\ shown.input.city.s = "Oslo"
    /\ prefs = {[id |-> 1, user_id |-> the(session["s2"].user_id), city |-> "Oslo"]}
    /\ nextId.prefs = 2

C7_Login ==
    \A s \in Sessions :
        Clicked(s, "Login") =>
            LET login_id == shown'.input.login_id
                password == shown'.input.password
            IN
            /\ \A o \in Sessions \ {s} : session'[o] = session[o]
            /\ IF session'[s].logged_in
               THEN \E row \in users :
                       /\ row.email = login_id.s \/ row.phone = login_id.s
                       /\ row.verified = 1
                       /\ row.password_hash = [bcrypt |-> password]
                       /\ session'[s] = [session[s] EXCEPT !.logged_in = TRUE,
                                                           !.user_id = Some(row.id),
                                                           !.email = Some(row.email)]
                       /\ \E stamp \in 1..MaxClock :
                             users' = (users \ {row})
                                      \cup {[row EXCEPT !.last_login = Some(stamp)]}
               ELSE /\ session' = session
                    /\ users' = users
                    /\ shown'.msg \in {"User not found.", "Your account is not verified yet.",
                                       "Incorrect password."}

\* C7: a login succeeds only for a row of users that matches the login id by email or
\* phone, is verified and holds the hash of the password; the session then is logged in
\* with that row's id and email and the row's last_login is the only change to users; a
\* failed login leaves the session and users as they were.
C7_LoginFrame == [][C7_Login]_vars

\* one session logged in (its row stamped), the other just refused
C7_Witness ==
    /\ session["s1"].logged_in
    /\ \E r \in users : Some(r.id) = session["s1"].user_id /\ r.last_login # None
    /\ shown.session = "s2"
    /\ shown.button = "Login"
    /\ shown.msg = "Your account is not verified yet."

\* every row of preferences belongs to a verified user who has logged in
C11_RowsOfLoggedInUsers ==
    \A p \in prefs :
        \E u \in users : u.id = p.user_id /\ u.verified = 1 /\ u.last_login # None

\* preferences changes only in a check made by a logged-in session, for a city that is
\* not blank, after the one call of get_weather returned a reading
C11_Write ==
    prefs' # prefs =>
        \E s \in Sessions :
            /\ Clicked(s, "Check Health Advice")
            /\ session[s].logged_in
            /\ session[s].user_id # None
            /\ shown'.input.city.s # ""
            /\ shown'.requests = 1
            /\ shown'.msg = "Health Recommendations"
            /\ shown'.tips # <<>>
            /\ \A p \in prefs' \ prefs :
                  p.user_id = the(session[s].user_id) /\ p.city = shown'.input.city.s

\* a blank city asks nothing; a lookup that failed is reported; neither writes
C11_Terminal ==
    \A s \in Sessions :
        Clicked(s, "Check Health Advice") =>
            /\ session[s].logged_in
            /\ shown'.requests <= 1
            /\ shown'.input.city.s = "" <=> shown'.msg = "Please enter a city."
            /\ shown'.input.city.s = "" <=> shown'.requests = 0
            /\ shown'.msg # "Health Recommendations" =>
                   /\ prefs' = prefs
                   /\ nextId' = nextId
                   /\ shown'.tips = <<>>
                   /\ shown'.msg \in {"Please enter a city.", "City not found or API error."}

\* C11: a row of preferences is written only by a logged-in session (user_id not None)
\* and only after get_weather returned a reading for a city that is not blank; a blank
\* city or a failed lookup writes nothing, leaves preferences as it was, and get_weather
\* is called once at most in a run.
C11_LoginGated ==
    /\ [](C11_RowsOfLoggedInUsers)
    /\ [][C11_Write /\ C11_Terminal]_vars

\* a lookup that failed, in a session whose earlier check saved a city
C11_Witness ==
    /\ shown.button = "Check Health Advice"
    /\ shown.msg = "City not found or API error."
    /\ shown.requests = 1
    /\ \E p \in prefs : Some(p.user_id) = session[shown.session].user_id

\* a signup becomes pending only in a Send OTP run whose send_verify_code succeeded,
\* for the phone the code was sent to
C12_Pending ==
    \A s \in Sessions :
        (session'[s].pending_user # None
            /\ session'[s].pending_user # session[s].pending_user) =>
            /\ Clicked(s, "Send OTP")
            /\ shown'.msg = "OTP sent."
            /\ the(session'[s].pending_user).phone = shown'.input.phone.s

\* a row is inserted only by Verify & Create Account, for the pending signup, on the
\* code Twilio Verify approves for its phone, and it is inserted verified
C12_Insert ==
    \A row \in users' :
        (\A r \in users : r.id # row.id) =>
            \E s \in Sessions :
                /\ Clicked(s, "Verify & Create Account")
                /\ session[s].signup_stage = "otp"
                /\ session[s].pending_user # None
                /\ row.phone = the(session[s].pending_user).phone
                /\ row.email = the(session[s].pending_user).email
                /\ shown'.input.code.s = RightCode
                /\ shown'.msg = "Phone verified & account created!"
                /\ row.verified = 1
                /\ users' = users \cup {row}

\* Cancel, Resend OTP and a refused code leave users as it was; no run removes a row or
\* changes the verified column
C12_NoInsert ==
    /\ \A s \in Sessions :
          (\/ Clicked(s, "Cancel")
           \/ Clicked(s, "Resend OTP")
           \/ Clicked(s, "Send OTP")
           \/ Clicked(s, "Verify & Create Account")
                 /\ shown'.msg # "Phone verified & account created!") => users' = users
    /\ \A r \in users : \E q \in users' : q.id = r.id /\ q.verified = r.verified

\* a login that succeeds is the login of a verified row; a login id that only rows not
\* verified hold is refused
C12_LoginRefused ==
    \A s \in Sessions :
        Clicked(s, "Login") =>
            LET held == {r \in users : r.email = shown'.input.login_id.s
                                        \/ r.phone = shown'.input.login_id.s}
            IN /\ session'[s].logged_in =>
                      \E r \in held : Some(r.id) = session'[s].user_id /\ r.verified = 1
               /\ (held # {} /\ \A r \in held : r.verified # 1) =>
                      /\ ~session'[s].logged_in
                      /\ shown'.msg = "Your account is not verified yet."

\* the rows the application inserted are verified, and no session is logged in as a row
\* that is not
C12_Verified ==
    /\ \A r \in users : r.verified = 1 \/ r = LegacyUser
    /\ \A s \in Sessions :
          session[s].logged_in =>
              \E r \in users : Some(r.id) = session[s].user_id /\ r.verified = 1

\* C12: a row of users is inserted only for a pending signup, which exists only after an
\* OTP was sent to its phone, and only when check_verify_code for that phone answered
\* approved; a wrong code, Cancel and Resend OTP insert nothing; every inserted row has
\* verified = 1, and no login succeeds for a row that is not verified.
C12_OtpVerified ==
    /\ [](C12_Verified)
    /\ [][C12_Pending /\ C12_Insert /\ C12_NoInsert /\ C12_LoginRefused]_vars

\* an account created on the approved code, and the row that is not verified refused
C12_Witness ==
    /\ \E r \in users : r.id = 3 /\ r.verified = 1 /\ r.signup_date # None
    /\ shown.button = "Login"
    /\ shown.input.login_id.s = LegacyEmail
    /\ shown.msg = "Your account is not verified yet."
    /\ ~session[shown.session].logged_in

\* the stage is "otp" exactly when a signup is pending, "form" exactly when none is
C13_StageMatchesPending ==
    \A s \in Sessions :
        /\ session[s].signup_stage \in {"form", "otp"}
        /\ session[s].signup_stage = "otp" <=> session[s].pending_user # None
        /\ session[s].signup_stage = "form" <=> session[s].pending_user = None

\* the branch "No pending signup found" was not taken by the last run
C13_BranchNotTaken == shown.msg # "No pending signup found."

\* the stage is left, and entered, together with the pending signup
C13_Stage ==
    \A s \in Sessions :
        /\ (session[s].signup_stage = "otp" /\ session'[s].signup_stage # "otp") =>
               /\ \/ Clicked(s, "Cancel")
                  \/ Clicked(s, "Verify & Create Account")
                        /\ shown'.msg = "Phone verified & account created!"
               /\ session'[s].signup_stage = "form"
               /\ session'[s].pending_user = None
        /\ (session[s].signup_stage = "form" /\ session'[s].signup_stage # "form") =>
               /\ Clicked(s, "Send OTP")
               /\ session'[s].signup_stage = "otp"
               /\ session'[s].pending_user # None
        /\ (Clicked(s, "Cancel")
              \/ (Clicked(s, "Verify & Create Account")
                    /\ shown'.msg = "Phone verified & account created!")) =>
               /\ session'[s].signup_stage = "form"
               /\ session'[s].pending_user = None
        /\ Clicked(s, "Resend OTP") => session' = session

\* C13: in every session signup_stage is "otp" exactly when pending_user is not None and
\* "form" exactly when it is None, so the branch "No pending signup found" is never
\* taken; the stage leaves "otp" only by a successful verification or by Cancel, and
\* both clear pending_user.
C13_SignupStage ==
    /\ [](C13_StageMatchesPending /\ C13_BranchNotTaken)
    /\ [][C13_Stage]_vars

\* one session has cancelled its signup while the other's is still pending
C13_Witness ==
    /\ shown.button = "Cancel"
    /\ session[shown.session].signup_stage = "form"
    /\ session[shown.session].pending_user = None
    /\ \E o \in Sessions \ {shown.session} :
          session[o].signup_stage = "otp" /\ session[o].pending_user # None

====
